---- MODULE Spec2Model ----
(***************************************************************************)
(* Model of the syunit crate: unit types wrapping one f32 each, and the    *)
(* operator implementations declared between them.                         *)
(*                                                                         *)
(* f32 is modelled by a binary floating-point format of the same shape     *)
(* (sign, significand, exponent; signed zeros, subnormals, infinities, one *)
(* NaN; round to nearest, ties to even) with Prec significand bits and     *)
(* exponents up to EMax instead of 24 bits and 127.                        *)
(***************************************************************************)
EXTENDS Integers, Sequences, FiniteSets, TLC

\* ------------------------------------------------------------------ bounds
\* Significand bits of the modelled float format (f32: 24).
Prec == 3
\* Largest exponent of the modelled float format (f32: 127).
EMax == 24
\* Input values are drawn from the binades 2^-InExp .. 2^(InExp-1), besides
\* the special values and the extremes of the format.
InExp == 1

\* ------------------------------------------------------------- f32 values
RECURSIVE Pow2(_)
Pow2(n) == IF n <= 0 THEN 1 ELSE 2 * Pow2(n - 1)

\* Exponent of the unit in the last place of the largest / smallest binade:
\* a finite value is m * 2^e with 0 <= m < 2^Prec and EMinU <= e <= EMaxU.
EMaxU == EMax - Prec + 1
EMinU == (1 - EMax) - Prec + 1

MantHi == Pow2(Prec)
MantLo == Pow2(Prec - 1)

Fin(s, m, e) == [c |-> "fin", s |-> s, m |-> m, e |-> e]
Zero(s) == Fin(s, 0, EMinU)
Inf(s) == [c |-> "inf", s |-> s, m |-> 0, e |-> 0]
NaN == [c |-> "nan", s |-> 0, m |-> 0, e |-> 0]

IsNaN(x) == x.c = "nan"
IsInf(x) == x.c = "inf"
IsFinite(x) == x.c = "fin"
IsZero(x) == x.c = "fin" /\ x.m = 0

\* The finite values of the format: normal (full significand) or subnormal
\* (smallest exponent).
IsF32(x) ==
    \/ x = NaN
    \/ x \in {Inf(0), Inf(1)}
    \/ /\ x.c = "fin" /\ x.s \in {0, 1}
       /\ x.e \in EMinU..EMaxU
       /\ x.m \in 0..(MantHi - 1)
       /\ (x.m < MantLo => x.e = EMinU)

MaxFinite(s) == Fin(s, MantHi - 1, EMaxU)
MinSub(s) == Fin(s, 1, EMinU)
One == Fin(0, MantLo, 1 - Prec)

\* ------------------------------------------------------------- f32 rounding
\* Rounds the positive rational (num / den) * 2^e to the nearest value of the
\* format, ties to even; overflow gives infinity, underflow a subnormal or zero.
RECURSIVE Normalize(_, _, _)
Normalize(num, den, e) ==
    IF num >= MantHi * den THEN Normalize(num, 2 * den, e + 1)
    ELSE IF num < MantLo * den THEN Normalize(2 * num, den, e - 1)
    ELSE <<num, den, e>>

RoundNearestEven(num, den) ==
    LET q == num \div den
        r == num % den
    IN  IF 2 * r > den \/ (2 * r = den /\ q % 2 = 1) THEN q + 1 ELSE q

\* The rounded value, and whether rounding changed the exact value (the
\* IEEE 754 inexact flag).
Rounded(v, ix) == [v |-> v, ix |-> ix]

Round(s, num, den, e) ==
    IF num = 0 THEN Rounded(Zero(s), FALSE)
    ELSE LET n == Normalize(num, den, e)
             sh == IF n[3] < EMinU THEN EMinU - n[3] ELSE 0
         IN  IF sh > Prec + 1 THEN Rounded(Zero(s), TRUE)
             ELSE LET d == n[2] * Pow2(sh)
                      q == RoundNearestEven(n[1], d)
                      t == n[3] + sh
                      m == IF q = MantHi THEN MantLo ELSE q
                      u == IF q = MantHi THEN t + 1 ELSE t
                      ix == n[1] % d # 0
                  IN  IF q = 0 THEN Rounded(Zero(s), TRUE)
                      ELSE IF u > EMaxU THEN Rounded(Inf(s), TRUE)
                      ELSE Rounded(Fin(s, m, u), ix)

\* A decimal literal num/den of the source, as the compiler rounds it to f32.
Lit(num, den) == Round(0, num, den, 0).v

\* ----------------------------------------------------------- f32 arithmetic
\* -x
f32_neg(x) == IF IsNaN(x) THEN NaN ELSE [x EXCEPT !.s = 1 - x.s]

\* x + y of two finite values: the exact sum, rounded once.
AddFinite(x, y) ==
    LET big == IF x.e >= y.e THEN x ELSE y
        small == IF x.e >= y.e THEN y ELSE x
        d == big.e - small.e
    IN  IF d >= Prec + 3 THEN Rounded(big, small.m # 0)
        ELSE LET sb == (IF big.s = 1 THEN -1 ELSE 1) * big.m * Pow2(d)
                 ss == (IF small.s = 1 THEN -1 ELSE 1) * small.m
                 sum == sb + ss
             IN  IF sum = 0
                 THEN Rounded(IF x.s = 1 /\ y.s = 1 THEN Zero(1) ELSE Zero(0), FALSE)
                 ELSE IF sum < 0 THEN Round(1, -sum, 1, small.e)
                 ELSE Round(0, sum, 1, small.e)

\* x + y with its inexact flag
AddR(x, y) ==
    IF IsNaN(x) \/ IsNaN(y) THEN Rounded(NaN, FALSE)
    ELSE IF IsInf(x) /\ IsInf(y) THEN Rounded(IF x.s = y.s THEN x ELSE NaN, FALSE)
    ELSE IF IsInf(x) THEN Rounded(x, FALSE)
    ELSE IF IsInf(y) THEN Rounded(y, FALSE)
    ELSE AddFinite(x, y)

\* x * y with its inexact flag
MulR(x, y) ==
    LET s == (x.s + y.s) % 2
    IN  IF IsNaN(x) \/ IsNaN(y) THEN Rounded(NaN, FALSE)
        ELSE IF IsInf(x) \/ IsInf(y)
             THEN Rounded(IF IsZero(x) \/ IsZero(y) THEN NaN ELSE Inf(s), FALSE)
        ELSE IF IsZero(x) \/ IsZero(y) THEN Rounded(Zero(s), FALSE)
        ELSE Round(s, x.m * y.m, 1, x.e + y.e)

\* x / y with its inexact flag
DivR(x, y) ==
    LET s == (x.s + y.s) % 2
    IN  IF IsNaN(x) \/ IsNaN(y) THEN Rounded(NaN, FALSE)
        ELSE IF IsInf(x) THEN Rounded(IF IsInf(y) THEN NaN ELSE Inf(s), FALSE)
        ELSE IF IsInf(y) THEN Rounded(Zero(s), FALSE)
        ELSE IF IsZero(y) THEN Rounded(IF IsZero(x) THEN NaN ELSE Inf(s), FALSE)
        ELSE IF IsZero(x) THEN Rounded(Zero(s), FALSE)
        ELSE Round(s, x.m, y.m, x.e - y.e)

\* x + y, x - y, x * y, x / y
f32_add(x, y) == AddR(x, y).v
f32_sub(x, y) == AddR(x, f32_neg(y)).v
f32_mul(x, y) == MulR(x, y).v
f32_div(x, y) == DivR(x, y).v

\* |x| < |y| for values that are not NaN
MagLt(x, y) ==
    IF IsInf(x) THEN FALSE
    ELSE IF IsInf(y) THEN TRUE
    ELSE x.e < y.e \/ (x.e = y.e /\ x.m < y.m)

\* x < y (false when either is NaN; -0 and +0 are equal)
f32_lt(x, y) ==
    /\ ~IsNaN(x) /\ ~IsNaN(y)
    /\ ~(IsZero(x) /\ IsZero(y))
    /\ IF x.s # y.s THEN x.s = 1
       ELSE IF x.s = 0 THEN MagLt(x, y) ELSE MagLt(y, x)

\* x == y (false when either is NaN; -0 == +0)
f32_eq(x, y) ==
    /\ ~IsNaN(x) /\ ~IsNaN(y)
    /\ (x = y \/ (IsZero(x) /\ IsZero(y)))

\* x <= y, x > y
f32_le(x, y) == f32_lt(x, y) \/ f32_eq(x, y)
f32_gt(x, y) == f32_lt(y, x)

\* ------------------------------------------------------ operator macros
\* An operator implementation `impl tr<rhs> for self { type Output = out }`
\* whose body computes `body` on the two wrapped f32 values (and conv, where
\* the macro arm takes a conversion literal).
Impl(tr, self, rhs, out, body, conv) ==
    [tr |-> tr, self |-> self, rhs |-> rhs, out |-> out, body |-> body, conv |-> conv]

\* impl_mul!(input, by, output): input * by = output
impl_mul(input, by, output) ==
    {Impl("Mul", input, by, output, "mul", One)}

\* impl_mul! with a conversion that divides instead of multiplying.
impl_mul_conv_Divides(input, by, output, conv) ==
    {Impl("Mul", input, by, output, "div_conv", conv)}

\* impl_mul!(input, by, output, conv): input * by * conv = output
impl_mul_conv(input, by, output, conv) ==
    {Impl("Mul", input, by, output, "mul_conv", conv)}

impl_mul_bidir(input, by, output) ==
    impl_mul(input, by, output) \cup impl_mul(by, input, output)
impl_mul_bidir_conv(input, by, output, conv) ==
    impl_mul_conv(input, by, output, conv) \cup impl_mul_conv(by, input, output, conv)

\* impl_div! with a body that multiplies.
impl_div_Multiplies(input, by, output) ==
    {Impl("Div", input, by, output, "mul", One)}

\* impl_div!(input, by, output): input / by = output
impl_div(input, by, output) ==
    {Impl("Div", input, by, output, "div", One)}
\* impl_div!(input, by, output, conv): input / by / conv = output
impl_div_conv(input, by, output, conv) ==
    {Impl("Div", input, by, output, "div_conv", conv)}

impl_div_bidir(input, by, output) ==
    impl_div(input, by, output) \cup impl_div(input, output, by)
impl_div_bidir_conv(input, by, output, conv) ==
    impl_div_conv(input, by, output, conv) \cup impl_div_conv(input, output, by, conv)

impl_full_conversion(input, by, output) ==
    impl_mul_bidir(input, by, output) \cup impl_div_bidir(output, by, input)
impl_full_conversion_conv(input, by, output, conv) ==
    impl_mul_bidir_conv(input, by, output, conv)
        \cup impl_div_bidir_conv(output, by, input, conv)

\* basic_unit!(a) of lib.rs: the operators with a bare f32 and with the unit
\* itself.
basic_unit_lib(a) ==
    { Impl("Mul", a, "f32", a, "mul", One),
      Impl("Mul", "f32", a, a, "mul", One),
      Impl("Div", a, "f32", a, "div", One),
      Impl("Div", a, a, "f32", "div", One) }

\* basic_unit!(a) of macros.rs (basic_unit_helper!): the operators with a bare
\* f32, with the unit itself and with a Factor.
basic_unit(a) ==
    { Impl("Mul", a, "f32", a, "mul", One),
      Impl("Mul", "f32", a, a, "mul", One),
      Impl("Div", a, "f32", a, "div", One),
      Impl("Div", a, a, "f32", "div", One),
      Impl("Mul", a, "Factor", a, "mul", One) }

\* additive_unit! with a `-=` that adds.
additive_unit_SubAssignAdds(unit) ==
    { Impl("Add", unit, unit, unit, "add", One),
      Impl("AddAssign", unit, unit, unit, "add", One),
      Impl("Sub", unit, unit, unit, "sub", One),
      Impl("SubAssign", unit, unit, unit, "add", One) }

\* additive_unit!(unit): +, +=, -, -= of the unit with itself
additive_unit(unit) ==
    { Impl("Add", unit, unit, unit, "add", One),
      Impl("AddAssign", unit, unit, unit, "add", One),
      Impl("Sub", unit, unit, unit, "sub", One),
      Impl("SubAssign", unit, unit, unit, "sub", One) }

\* additive_unit!(unit) of lib.rs
additive_unit_lib(unit) ==
    { Impl("Add", unit, unit, unit, "add", One),
      Impl("AddAssign", unit, unit, unit, "add", One),
      Impl("Sub", unit, unit, unit, "sub", One),
      Impl("SubAssign", unit, unit, unit, "sub", One) }

\* position_unit! with the body of `pos + unit` subtracting.
position_unit_AddSubtracts(pos, unit) ==
    { Impl("Add", pos, unit, pos, "sub", One),
      Impl("AddAssign", pos, unit, pos, "add", One),
      Impl("Sub", pos, unit, pos, "sub", One),
      Impl("SubAssign", pos, unit, pos, "sub", One),
      Impl("Sub", pos, pos, unit, "sub", One) }

\* position_unit!(pos, unit)
position_unit(pos, unit) ==
    { Impl("Add", pos, unit, pos, "add", One),
      Impl("AddAssign", pos, unit, pos, "add", One),
      Impl("Sub", pos, unit, pos, "sub", One),
      Impl("SubAssign", pos, unit, pos, "sub", One),
      Impl("Sub", pos, pos, unit, "sub", One) }

\* derive_units!(dist, vel, time) of macros.rs
derive_units(dist, vel, time) == impl_full_conversion(vel, time, dist)

\* The DerivableUnit / IntegrableUnit implementations derive_units! of
\* macros.rs adds: <<unit, time, Result>>.
derive_units_Derivable(dist, vel, time) == {<<dist, time, vel>>}
derive_units_Integrable(dist, vel, time) == {<<vel, time, dist>>}

\* derive_units! with `vel * time` typed as the rate instead of the quantity.
derive_units_lib_ProductIsRate(dist, vel, time) ==
    { Impl("Mul", vel, time, vel, "mul", One),
      Impl("Mul", time, vel, dist, "mul", One),
      Impl("Div", dist, vel, time, "div", One),
      Impl("Div", dist, time, vel, "div", One) }

\* derive_units!(dist, vel, time) of lib.rs
derive_units_lib(dist, vel, time) ==
    { Impl("Mul", vel, time, dist, "mul", One),
      Impl("Mul", time, vel, dist, "mul", One),
      Impl("Div", dist, vel, time, "div", One),
      Impl("Div", dist, time, vel, "div", One) }

\* ---------------------------------------------------- unit declarations
\* lib.rs
Time_impls ==
    basic_unit_lib("Time") \cup additive_unit_lib("Time")
        \cup {Impl("Div", "f32", "Time", "Velocity", "div", One)}

Gamma_impls ==
    basic_unit_lib("Gamma") \cup
    { Impl("Sub", "Gamma", "Gamma", "Delta", "sub", One),
      Impl("Add", "Gamma", "Delta", "Gamma", "add", One),
      Impl("Add", "Delta", "Gamma", "Delta", "add", One),
      Impl("AddAssign", "Gamma", "Delta", "Gamma", "add", One),
      Impl("Sub", "Gamma", "Delta", "Gamma", "sub", One),
      Impl("SubAssign", "Gamma", "Gamma", "Gamma", "sub", One) }

Phi_impls ==
    basic_unit_lib("Phi") \cup
    { Impl("Sub", "Phi", "Phi", "Delta", "sub", One),
      Impl("Add", "Phi", "Delta", "Phi", "add", One),
      Impl("Add", "Delta", "Phi", "Phi", "add", One),
      Impl("AddAssign", "Phi", "Delta", "Phi", "add", One),
      Impl("Sub", "Phi", "Delta", "Phi", "sub", One),
      Impl("SubAssign", "Phi", "Delta", "Phi", "add", One) }

Delta_impls == basic_unit_lib("Delta") \cup additive_unit_lib("Delta")

Velocity_impls ==
    basic_unit_lib("Velocity") \cup additive_unit_lib("Velocity")
        \cup derive_units_lib("Delta", "Velocity", "Time")
        \cup {Impl("Div", "f32", "Velocity", "Time", "div", One)}

Acceleration_impls ==
    basic_unit_lib("Acceleration") \cup additive_unit_lib("Acceleration")
        \cup derive_units_lib("Velocity", "Acceleration", "Time")
        \cup derive_units_lib("Force", "Acceleration", "Inertia")

Jolt_impls ==
    basic_unit_lib("Jolt") \cup additive_unit_lib("Jolt")
        \cup derive_units_lib("Acceleration", "Jolt", "Time")

Inertia_impls == basic_unit_lib("Inertia") \cup additive_unit_lib("Inertia")

Force_impls == basic_unit_lib("Force") \cup additive_unit_lib("Force")

\* metric.rs
PositionMM_impls ==
    basic_unit("PositionMM") \cup position_unit("PositionMM", "Millimeters")
        \cup impl_full_conversion("PositionRad", "Millimeters", "PositionMM")

Millimeters_impls ==
    basic_unit("Millimeters") \cup additive_unit("Millimeters")
        \cup derive_units("Millimeters", "MMPerSecond", "Seconds")
        \cup impl_mul_bidir("Radians", "Millimeters", "Millimeters")

MMPerSecond_impls ==
    basic_unit("MMPerSecond") \cup additive_unit("MMPerSecond")
        \cup derive_units("MMPerSecond", "MMPerSecond2", "Seconds")
        \cup impl_full_conversion("RadPerSecond", "Millimeters", "MMPerSecond")

MMPerSecond2_impls ==
    basic_unit("MMPerSecond2") \cup additive_unit("MMPerSecond2")
        \cup derive_units("MMPerSecond2", "MMPerSecond3", "Seconds")
        \cup impl_full_conversion("RadPerSecond2", "Millimeters", "MMPerSecond2")

MMPerSecond3_impls ==
    basic_unit("MMPerSecond3") \cup additive_unit("MMPerSecond3")
        \cup impl_full_conversion("RadPerSecond3", "Millimeters", "MMPerSecond3")

Newtons_impls ==
    basic_unit("Newtons") \cup additive_unit("Newtons")
        \cup impl_full_conversion_conv("MMPerSecond2", "Kilogramms", "Newtons", Lit(1, 1000))

Kilogramms_impls == basic_unit("Kilogramms") \cup additive_unit("Kilogramms")

NewtonMeters_impls ==
    basic_unit("NewtonMeters") \cup additive_unit("NewtonMeters")
        \cup impl_full_conversion("KgMeter2", "RadPerSecond2", "NewtonMeters")
        \cup impl_full_conversion_conv("Newtons", "Millimeters", "NewtonMeters", Lit(1, 1000))

KgMeter2_impls == basic_unit("KgMeter2") \cup additive_unit("KgMeter2")

PositionM_impls ==
    basic_unit("PositionM") \cup position_unit("PositionM", "Meters")
        \cup impl_full_conversion("PositionRad", "Meters", "PositionM")

Meters_impls ==
    basic_unit("Meters") \cup additive_unit("Meters")
        \cup impl_mul_bidir("Radians", "Meters", "Meters")

\* Every operator implementation the source files declare.
LibImpls ==
    Time_impls \cup Gamma_impls \cup Phi_impls \cup Delta_impls \cup Velocity_impls
        \cup Acceleration_impls \cup Jolt_impls \cup Inertia_impls \cup Force_impls

MetricImpls ==
    PositionMM_impls \cup Millimeters_impls \cup MMPerSecond_impls
        \cup MMPerSecond2_impls \cup MMPerSecond3_impls \cup Newtons_impls
        \cup Kilogramms_impls \cup NewtonMeters_impls \cup KgMeter2_impls
        \cup PositionM_impls \cup Meters_impls

Impls == LibImpls \cup MetricImpls

\* What an implementation's body computes from the wrapped values, and whether
\* any of its f32 operations rounded.
BodyR(i, x, y) ==
    CASE i.body = "add" -> AddR(x, y)
      [] i.body = "sub" -> AddR(x, f32_neg(y))
      [] i.body = "mul" -> MulR(x, y)
      [] i.body = "div" -> DivR(x, y)
      [] i.body = "mul_conv" ->
            Rounded(MulR(MulR(x, y).v, i.conv).v,
                    MulR(x, y).ix \/ MulR(MulR(x, y).v, i.conv).ix)
      [] i.body = "div_conv" ->
            Rounded(DivR(DivR(x, y).v, i.conv).v,
                    DivR(x, y).ix \/ DivR(DivR(x, y).v, i.conv).ix)

Body(i, x, y) == BodyR(i, x, y).v

\* ------------------------------------------------------------ SpeedFactor
Ok(v) == [ok |-> TRUE, v |-> v]
Err(v) == [ok |-> FALSE, v |-> v]

\* SpeedFactor::try_from(value)
try_from(value) ==
    IF f32_le(value, One) /\ f32_gt(value, Zero(0)) THEN Ok(value) ELSE Err(value)

\* ---------------------------------------------------------------- state
VARIABLES
    va, vb,      \* the f32 values the operands are constructed from
    pc,        \* "input", "one" (one operator applied), "two"
    op1, r1,   \* the first operator applied to (va, vb) and its typed result
    op2, arr,  \* the second operator and its operands: "rb" (r1, vb), "br" (vb, r1), "ra" (r1, va)
    r2         \* the second operator's typed result

vars == <<va, vb, pc, op1, r1, op2, arr, r2>>

NoImpl == Impl("none", "none", "none", "none", "none", One)
Val(ty, v) == [ty |-> ty, v |-> v]
NoVal == Val("none", NaN)

\* The input values: the special values, the extremes of the format and every
\* value of the binades 2^-InExp .. 2^0, of either sign.
Inputs ==
    {Zero(0), Zero(1), Inf(0), Inf(1), NaN}
        \cup {MaxFinite(0), MaxFinite(1), MinSub(0), MinSub(1)}
        \cup {Fin(s, m, e) : s \in {0, 1}, m \in MantLo..(MantHi - 1),
                             e \in (1 - Prec - InExp)..(1 - Prec)}

\* A value of type ty can be constructed from the f32 v: every unit wraps any
\* f32 (its field is public), a SpeedFactor only one that try_from accepts.
Constructible(ty, v) == ty = "SpeedFactor" => try_from(v).ok

Init ==
    /\ va \in Inputs /\ vb \in Inputs
    /\ pc = "input"
    /\ op1 = NoImpl /\ r1 = NoVal
    /\ op2 = NoImpl /\ arr = "none" /\ r2 = NoVal

\* self(va) <op> rhs(vb) with implementation i
First(i) ==
    /\ pc = "input"
    /\ Constructible(i.self, va) /\ Constructible(i.rhs, vb)
    /\ op1' = i
    /\ r1' = Val(i.out, Body(i, va, vb))
    /\ pc' = "one"
    /\ UNCHANGED <<va, vb, op2, arr, r2>>

\* The operands of a second operator: the first result with an operand of the first.
Left(ar) == IF ar = "br" THEN Val(op1.rhs, vb) ELSE r1
Right(ar) ==
    CASE ar = "rb" -> Val(op1.rhs, vb)
      [] ar = "br" -> r1
      [] ar = "ra" -> Val(op1.self, va)

\* A second operator j applied to the first result and an operand of the first.
Then(j, ar) ==
    /\ pc = "one"
    /\ j.self = Left(ar).ty /\ j.rhs = Right(ar).ty
    /\ op2' = j
    /\ arr' = ar
    /\ r2' = Val(j.out, Body(j, Left(ar).v, Right(ar).v))
    /\ pc' = "two"
    /\ UNCHANGED <<va, vb, op1, r1>>

\* --------------------------------------------- position / distance pairs
PositionTypes == {"Gamma", "Phi", "PositionMM", "PositionM"}

\* The distance type paired with a position type.
Distance(p) ==
    CASE p = "Gamma" -> "Delta"
      [] p = "Phi" -> "Delta"
      [] p = "PositionMM" -> "Millimeters"
      [] p = "PositionM" -> "Meters"

\* The operators between a position type and its paired distance type.
PositionImpls ==
    {i \in Impls : \E p \in PositionTypes :
        {i.self, i.rhs} \subseteq {p, Distance(p)} /\ p \in {i.self, i.rhs}}

NextPosition ==
    \/ \E i \in PositionImpls : First(i)
    \/ \E j \in PositionImpls : \E ar \in {"rb", "br"} : Then(j, ar)

SpecPosition == Init /\ [][NextPosition]_vars

\* The implementation of trait tr for self with right operand rhs, if declared.
Declared(tr, self, rhs) == {i \in Impls : i.tr = tr /\ i.self = self /\ i.rhs = rhs}

Applied == pc # "input"
PosMinusPos == Applied /\ op1.tr = "Sub" /\ op1.self \in PositionTypes /\ op1.rhs = op1.self
\* p2 + (p1 - p2), with p1 = va and p2 = vb
PosRoundTrip ==
    /\ pc = "two" /\ PosMinusPos /\ IsFinite(va) /\ IsFinite(vb)
    /\ op2.tr = "Add" /\ arr = "br" /\ op2.self = op1.self

\* Every position type declares P - P -> D, P + D -> P and P - D -> P.
C1_Declared ==
    \A p \in PositionTypes :
        /\ \E i \in Declared("Sub", p, p) : i.out = Distance(p)
        /\ \E i \in Declared("Add", p, Distance(p)) : i.out = p
        /\ \E i \in Declared("Sub", p, Distance(p)) : i.out = p

C1_Types ==
    /\ C1_Declared
    /\ PosMinusPos => r1 = Val(Distance(op1.self), f32_sub(va, vb))
    /\ (Applied /\ op1.tr \in {"Add", "Sub"} /\ op1.self \in PositionTypes
          /\ op1.rhs = Distance(op1.self))
        => r1.ty = op1.self

\* C1 as stated: for every position type P with paired distance D and all
\* finite p1, p2: p1 - p2 is a D of value p1 - p2, p + d and p - d are a P, and
\* p2 + (p1 - p2) == p1.
C1_RoundTripAllFinite ==
    /\ C1_Types
    /\ PosRoundTrip => (r2.ty = op1.self /\ f32_eq(r2.v, va))

\* C1 amended: for every position type P with paired distance D and all
\* finite p1, p2: p1 - p2 is a D of value p1 - p2, p + d and p - d are a P, and
\* p2 + (p1 - p2) == p1 whenever the subtraction p1 - p2 did not round.
C1_RoundTripWhenExact ==
    /\ C1_Types
    /\ (PosRoundTrip /\ ~BodyR(op1, va, vb).ix) => (r2.ty = op1.self /\ f32_eq(r2.v, va))

C1_Witness ==
    /\ PosRoundTrip /\ ~BodyR(op1, va, vb).ix
    /\ op1.self = "PositionMM" /\ r1.ty = "Millimeters" /\ ~IsZero(r1.v)
    /\ ~IsZero(va) /\ va.s = 0 /\ vb.s = 1 /\ r2 = Val("PositionMM", va)

\* C2 as stated, for the additive operators: of +, +=, - and -= the only one
\* declared with the same position type on both sides is P - P, and its result
\* is the paired distance type.
C2_NoPositionWithPosition ==
    (Applied /\ op1.self \in PositionTypes /\ op1.rhs = op1.self
        /\ op1.tr \in {"Add", "AddAssign", "Sub", "SubAssign"})
    => (op1.tr = "Sub" /\ r1.ty = Distance(op1.self))

NonAssigning(tr) == IF tr = "AddAssign" THEN "Add" ELSE "Sub"

\* C3 as stated: for every position type P with paired distance D, `p += d`
\* and `p -= d` take a D as right operand and leave p equal to `p + d`, `p - d`.
C3_AssigningAgrees ==
    (Applied /\ op1.tr \in {"AddAssign", "SubAssign"} /\ op1.self \in PositionTypes)
    => /\ op1.rhs = Distance(op1.self)
       /\ \E j \in Declared(NonAssigning(op1.tr), op1.self, op1.rhs) :
             r1 = Val(j.out, Body(j, va, vb))

\* ------------------------------------------------------------ rate ladder
\* The time types.
TimeTypes == {"Time", "Seconds"}

\* The operators the invocations of derive_units! declare (lib.rs, metric.rs).
DeriveImpls_lib ==
    derive_units_lib("Delta", "Velocity", "Time")
        \cup derive_units_lib("Velocity", "Acceleration", "Time")
        \cup derive_units_lib("Force", "Acceleration", "Inertia")
        \cup derive_units_lib("Acceleration", "Jolt", "Time")

DeriveImpls_metric ==
    derive_units("Millimeters", "MMPerSecond", "Seconds")
        \cup derive_units("MMPerSecond", "MMPerSecond2", "Seconds")
        \cup derive_units("MMPerSecond2", "MMPerSecond3", "Seconds")

DeriveImpls == DeriveImpls_lib \cup DeriveImpls_metric

\* The DerivableUnit<time> / IntegrableUnit<time> implementations the
\* invocations of derive_units! in metric.rs add: <<unit, time, Result>>.
Derivable ==
    derive_units_Derivable("Millimeters", "MMPerSecond", "Seconds")
        \cup derive_units_Derivable("MMPerSecond", "MMPerSecond2", "Seconds")
        \cup derive_units_Derivable("MMPerSecond2", "MMPerSecond3", "Seconds")

Integrable ==
    derive_units_Integrable("Millimeters", "MMPerSecond", "Seconds")
        \cup derive_units_Integrable("MMPerSecond", "MMPerSecond2", "Seconds")
        \cup derive_units_Integrable("MMPerSecond2", "MMPerSecond3", "Seconds")

\* The operators of the rate ladder: those derive_units! declares between a
\* quantity, its rate and a time type.
RateImpls == {i \in DeriveImpls : TimeTypes \cap {i.self, i.rhs, i.out} # {}}

NextRate ==
    \/ \E i \in RateImpls : First(i)
    \/ \E j \in RateImpls : \E ar \in {"rb", "ra"} : Then(j, ar)

SpecRate == Init /\ [][NextRate]_vars

\* The (Quantity, Rate, Time) links named by the ladder.
Ladder ==
    { <<"Delta", "Velocity", "Time">>, <<"Velocity", "Acceleration", "Time">>,
      <<"Acceleration", "Jolt", "Time">>,
      <<"Millimeters", "MMPerSecond", "Seconds">>,
      <<"MMPerSecond", "MMPerSecond2", "Seconds">>,
      <<"MMPerSecond2", "MMPerSecond3", "Seconds">> }

\* All four operators of every link are declared, with the stated result types.
C4_Declared ==
    \A l \in Ladder :
        /\ \E i \in Declared("Div", l[1], l[3]) : i.out = l[2]
        /\ \E i \in Declared("Mul", l[2], l[3]) : i.out = l[1]
        /\ \E i \in Declared("Mul", l[3], l[2]) : i.out = l[1]
        /\ \E i \in Declared("Div", l[1], l[2]) : i.out = l[3]

\* The first operator applied is one of a link l of the ladder.
OfLink(i, l) == {i.self, i.rhs, i.out} = {l[1], l[2], l[3]}

\* The operators compute q / t, r * t, t * r and q / r on the wrapped values.
C4_Values ==
    (Applied /\ op1 \in RateImpls) =>
        \E l \in Ladder :
            /\ OfLink(op1, l)
            /\ (op1.tr = "Div" /\ op1.rhs = l[3]) => r1 = Val(l[2], f32_div(va, vb))
            /\ (op1.tr = "Div" /\ op1.rhs = l[2]) => r1 = Val(l[3], f32_div(va, vb))
            /\ op1.tr = "Mul" => r1 = Val(l[1], f32_mul(va, vb))

\* (q / t) * t, with q = va and t = vb
QuotientTimesTime ==
    /\ pc = "two" /\ op1 \in RateImpls /\ op1.tr = "Div" /\ op1.rhs \in TimeTypes
    /\ op2.tr = "Mul" /\ arr = "rb"
\* (r * t) / r, with r = va and t = vb
ProductOverRate ==
    /\ pc = "two" /\ op1 \in RateImpls /\ op1.tr = "Mul" /\ op1.rhs \in TimeTypes
    /\ op2.tr = "Div" /\ arr = "ra"

\* C4 as stated, for finite values: all four operators exist with the stated
\* types and values, (q / t) * t == q for nonzero t and (r * t) / r == t for
\* nonzero r.
C4_RoundTripAllFinite ==
    /\ C4_Declared /\ C4_Values
    /\ (QuotientTimesTime /\ IsFinite(va) /\ IsFinite(vb) /\ ~IsZero(vb))
        => r2 = Val(op1.self, r2.v) /\ f32_eq(r2.v, va)
    /\ (ProductOverRate /\ IsFinite(va) /\ IsFinite(vb) /\ ~IsZero(va))
        => r2 = Val(op1.rhs, r2.v) /\ f32_eq(r2.v, vb)

\* C4 amended: all four operators exist with the stated types and values; for
\* finite q and finite nonzero t, (q / t) * t == q whenever q / t did not
\* round; for finite t and finite nonzero r, (r * t) / r == t whenever r * t
\* did not round.
C4_RoundTripWhenExact ==
    /\ C4_Declared /\ C4_Values
    /\ (QuotientTimesTime /\ IsFinite(va) /\ IsFinite(vb) /\ ~IsZero(vb)
          /\ ~BodyR(op1, va, vb).ix)
        => r2 = Val(op1.self, r2.v) /\ f32_eq(r2.v, va)
    /\ (ProductOverRate /\ IsFinite(va) /\ IsFinite(vb) /\ ~IsZero(va)
          /\ ~BodyR(op1, va, vb).ix)
        => r2 = Val(op1.rhs, r2.v) /\ f32_eq(r2.v, vb)

C4_Witness ==
    /\ QuotientTimesTime /\ ~BodyR(op1, va, vb).ix
    /\ op1.self = "MMPerSecond" /\ r1.ty = "MMPerSecond2"
    /\ IsFinite(va) /\ ~IsZero(va) /\ IsFinite(vb) /\ ~IsZero(vb) /\ vb # One
    /\ r2 = Val("MMPerSecond", va)

\* The derivative relation: Quantity -> Rate whenever derive_units! declares
\* Quantity / Time -> Rate for a time type; the integral relation: Rate ->
\* Quantity whenever it declares Rate * Time -> Quantity.
Derivative == {<<i.self, i.out>> : i \in {j \in DeriveImpls : j.tr = "Div" /\ j.rhs \in TimeTypes}}
Integral == {<<i.self, i.out>> : i \in {j \in DeriveImpls : j.tr = "Mul" /\ j.rhs \in TimeTypes}}

LadderTypes == {l[1] : l \in Derivative} \cup {l[2] : l \in Derivative}

\* The types reached from the set S of types in exactly n derivative steps.
RECURSIVE Derived(_, _)
Derived(S, n) ==
    IF n = 0 THEN S
    ELSE Derived({l[2] : l \in {k \in Derivative : k[1] \in S}}, n - 1)

Acyclic ==
    \A x \in LadderTypes : \A n \in 1..Cardinality(LadderTypes) : x \notin Derived({x}, n)

Inverse(R) == {<<l[2], l[1]>> : l \in R}

\* C8: the derivative relation is acyclic, gives every type at most one Rate
\* and at most one Quantity, and the integral relation (the Rate * Time
\* operators, and the IntegrableUnit implementations against the
\* DerivableUnit ones) is exactly its inverse; a quantity divided by a time
\* is its Rate, and that Rate multiplied by the time is of the quantity's
\* type again.
C8_LadderWellFormed ==
    /\ Acyclic
    /\ \A k, l \in Derivative : (k[1] = l[1] => k[2] = l[2]) /\ (k[2] = l[2] => k[1] = l[1])
    /\ Integral = Inverse(Derivative)
    /\ {<<l[1], l[3]>> : l \in Integrable} = Inverse({<<l[1], l[3]>> : l \in Derivable})
    /\ {<<l[1], l[3]>> : l \in Derivable} \subseteq Derivative
    /\ (Applied /\ op1 \in RateImpls /\ op1.tr = "Div" /\ op1.rhs \in TimeTypes)
        => <<op1.self, r1.ty>> \in Derivative
    /\ QuotientTimesTime => <<r1.ty, r2.ty>> \in Integral /\ r2.ty = op1.self

C8_Witness ==
    /\ QuotientTimesTime
    /\ <<op1.self, op1.out>> = <<"Velocity", "Acceleration">>
    /\ <<"Acceleration", "Jolt">> \in Derivative /\ <<"Delta", "Velocity">> \in Derivative
    /\ r1.ty = "Acceleration" /\ r2.ty = "Velocity"

\* ------------------------------------------------------- force triangles
\* The declared <<Force, Inertia, Acceleration>> triangles.
Triangles ==
    { <<"Force", "Inertia", "Acceleration">>,
      <<"NewtonMeters", "KgMeter2", "RadPerSecond2">>,
      <<"Newtons", "Kilogramms", "MMPerSecond2">> }

\* The operators between the three types of a triangle.
ForceImpls ==
    {i \in Impls : i.tr \in {"Mul", "Div"}
        /\ \E t \in Triangles : {i.self, i.rhs, i.out} = {t[1], t[2], t[3]}}

NextForce ==
    \/ \E i \in ForceImpls : First(i)
    \/ \E j \in ForceImpls : \E ar \in {"rb", "ra"} : Then(j, ar)

SpecForce == Init /\ [][NextForce]_vars

\* Inertia * Acceleration and Acceleration * Inertia yield Force, Force /
\* Inertia yields Acceleration and Force / Acceleration yields Inertia.
C5_Declared ==
    \A t \in Triangles :
        /\ \E i \in Declared("Mul", t[2], t[3]) : i.out = t[1]
        /\ \E i \in Declared("Mul", t[3], t[2]) : i.out = t[1]
        /\ \E i \in Declared("Div", t[1], t[2]) : i.out = t[3]
        /\ \E i \in Declared("Div", t[1], t[3]) : i.out = t[2]

\* The scaling constant of a triangle's operators: multiplied in `*`, divided
\* in `/`; the Newtons triangle is the one declared with a constant.
C5_Scaling ==
    (Applied /\ op1 \in ForceImpls) =>
        IF "Newtons" \in {op1.self, op1.out}
        THEN /\ op1.conv = Lit(1, 1000)
             /\ op1.tr = "Mul" => r1.v = f32_mul(f32_mul(va, vb), op1.conv)
             /\ op1.tr = "Div" => r1.v = f32_div(f32_div(va, vb), op1.conv)
        ELSE /\ op1.tr = "Mul" => r1.v = f32_mul(va, vb)
             /\ op1.tr = "Div" => r1.v = f32_div(va, vb)

\* (x * y) / x and (x * y) / y, with x = va and y = vb an inertia and an
\* acceleration in either order
ProductOverFactor ==
    /\ pc = "two" /\ op1 \in ForceImpls /\ op1.tr = "Mul" /\ op2.tr = "Div"
    /\ IsFinite(va) /\ ~IsZero(va) /\ IsFinite(vb) /\ ~IsZero(vb)
\* the factor the division has to give back
Remaining == IF arr = "ra" THEN Val(op1.rhs, vb) ELSE Val(op1.self, va)

\* C5 as stated, for finite values: the four operators of every triangle
\* exist with the stated types, and for nonzero i and a, (i * a) / i == a and
\* (i * a) / a == i, also with the scaling constant.
C5_InverseAllFinite ==
    /\ C5_Declared /\ C5_Scaling
    /\ ProductOverFactor => r2.ty = Remaining.ty /\ f32_eq(r2.v, Remaining.v)

\* C5 amended: the four operators of every triangle exist with the stated
\* types, and for finite nonzero i and a, (i * a) / i == a and
\* (i * a) / a == i whenever no f32 operation of the two operators rounded,
\* also with the scaling constant.
C5_InverseWhenExact ==
    /\ C5_Declared /\ C5_Scaling
    /\ (ProductOverFactor /\ ~BodyR(op1, va, vb).ix
          /\ ~BodyR(op2, Left(arr).v, Right(arr).v).ix)
        => r2.ty = Remaining.ty /\ f32_eq(r2.v, Remaining.v)

C5_Witness ==
    /\ ProductOverFactor /\ ~BodyR(op1, va, vb).ix
    /\ ~BodyR(op2, Left(arr).v, Right(arr).v).ix
    /\ op1.self = "Kilogramms" /\ op1.rhs = "MMPerSecond2" /\ r1.ty = "Newtons"
    /\ arr = "ra" /\ va # One /\ vb # One /\ va # vb
    /\ r2 = Val("MMPerSecond2", vb)

\* --------------------------------------------------------- additive units
\* The types declared with additive_unit! (lib.rs, metric.rs).
AdditiveTypes_lib ==
    {"Time", "Delta", "Velocity", "Acceleration", "Jolt", "Inertia", "Force"}
AdditiveTypes_metric ==
    {"Millimeters", "MMPerSecond", "MMPerSecond2", "MMPerSecond3", "Newtons",
     "Kilogramms", "NewtonMeters", "KgMeter2", "Meters"}
AdditiveTypes == AdditiveTypes_lib \cup AdditiveTypes_metric

\* The operators additive_unit! declares.
AdditiveImpls ==
    {i \in Impls : i.self \in AdditiveTypes /\ i.rhs = i.self
        /\ i.tr \in {"Add", "AddAssign", "Sub", "SubAssign"}}

NextAdditive ==
    \/ \E i \in AdditiveImpls : First(i)
    \/ \E j \in {k \in AdditiveImpls : k.tr \in {"Add", "Sub"}} : Then(j, "rb")

SpecAdditive == Init /\ [][NextAdditive]_vars

\* a + b, a - b, a += b and a -= b are declared for every additive type.
C6_Declared ==
    \A u \in AdditiveTypes : \A tr \in {"Add", "AddAssign", "Sub", "SubAssign"} :
        \E i \in Declared(tr, u, u) : i.out = u

\* a + b and a - b have the type of the operands, a + b == b + a for finite
\* a, b, and a += b / a -= b leave a equal to a + b / a - b.
C6_Laws ==
    (Applied /\ op1 \in AdditiveImpls) =>
        /\ r1.ty = op1.self
        /\ op1.tr \in {"Add", "AddAssign"} => r1.v = f32_add(va, vb)
        /\ op1.tr \in {"Sub", "SubAssign"} => r1.v = f32_sub(va, vb)
        /\ (op1.tr = "Add" /\ IsFinite(va) /\ IsFinite(vb))
            => f32_eq(r1.v, Body(op1, vb, va))
        /\ op1.tr \in {"AddAssign", "SubAssign"} =>
            \E j \in Declared(NonAssigning(op1.tr), op1.self, op1.rhs) :
                r1 = Val(j.out, Body(j, va, vb))

\* (a + b) - b, with a = va and b = vb
SumMinus ==
    /\ pc = "two" /\ op1 \in AdditiveImpls /\ op1.tr = "Add" /\ op2.tr = "Sub"
    /\ IsFinite(va) /\ IsFinite(vb)

\* C6 as stated: for every additive type and all finite a, b: a + b and a - b
\* have the operands' type, (a + b) - b == a, a + b == b + a, and the
\* assigning forms agree with the non-assigning ones.
C6_RoundTripAllFinite ==
    /\ C6_Declared /\ C6_Laws
    /\ SumMinus => r2.ty = op1.self /\ f32_eq(r2.v, va)

\* C6 amended: for every additive type and all finite a, b: a + b and a - b
\* have the operands' type, (a + b) - b == a whenever a + b did not round,
\* a + b == b + a, and the assigning forms agree with the non-assigning ones.
C6_RoundTripWhenExact ==
    /\ C6_Declared /\ C6_Laws
    /\ (SumMinus /\ ~BodyR(op1, va, vb).ix) => r2.ty = op1.self /\ f32_eq(r2.v, va)

C6_Witness ==
    /\ SumMinus /\ ~BodyR(op1, va, vb).ix
    /\ op1.self = "Newtons" /\ ~IsZero(va) /\ ~IsZero(vb) /\ va.s # vb.s
    /\ ~IsZero(r1.v) /\ r2 = Val("Newtons", va)

\* -------------------------------------------------------------- unit sets
\* impl UnitSet for MetricMM / for Rotary: the eight associated types.
MetricMM_Swapped ==
    [ Time |-> "Seconds", Position |-> "PositionMM", Distance |-> "Millimeters",
      Velocity |-> "MMPerSecond2", Acceleration |-> "MMPerSecond",
      Jolt |-> "MMPerSecond3", Force |-> "Newtons", Inertia |-> "Kilogramms" ]

MetricMM ==
    [ Time |-> "Seconds", Position |-> "PositionMM", Distance |-> "Millimeters",
      Velocity |-> "MMPerSecond", Acceleration |-> "MMPerSecond2",
      Jolt |-> "MMPerSecond3", Force |-> "Newtons", Inertia |-> "Kilogramms" ]

Rotary ==
    [ Time |-> "Seconds", Position |-> "PositionRad", Distance |-> "Radians",
      Velocity |-> "RadPerSecond", Acceleration |-> "RadPerSecond2",
      Jolt |-> "RadPerSecond3", Force |-> "NewtonMeters", Inertia |-> "KgMeter2" ]

UnitSets == {MetricMM, Rotary}
SetTypes(S) == {S[k] : k \in DOMAIN S}

\* The declarations of the radian types, which the source files name but do
\* not contain: a position with its distance, and the rate ladder over Seconds.
Radian_impls ==
    position_unit("PositionRad", "Radians")
        \cup derive_units("Radians", "RadPerSecond", "Seconds")
        \cup derive_units("RadPerSecond", "RadPerSecond2", "Seconds")
        \cup derive_units("RadPerSecond2", "RadPerSecond3", "Seconds")

\* The relationships a unit set has to satisfy: <<trait, self, rhs, output>>.
Relationships(S) ==
    { <<"Sub", S.Position, S.Position, S.Distance>>,
      <<"Add", S.Position, S.Distance, S.Position>>,
      <<"Sub", S.Position, S.Distance, S.Position>>,
      <<"Div", S.Distance, S.Time, S.Velocity>>,
      <<"Div", S.Velocity, S.Time, S.Acceleration>>,
      <<"Div", S.Acceleration, S.Time, S.Jolt>>,
      <<"Mul", S.Velocity, S.Time, S.Distance>>,
      <<"Mul", S.Acceleration, S.Time, S.Velocity>>,
      <<"Mul", S.Jolt, S.Time, S.Acceleration>>,
      <<"Mul", S.Inertia, S.Acceleration, S.Force>>,
      <<"Div", S.Force, S.Inertia, S.Acceleration>>,
      <<"Div", S.Force, S.Acceleration, S.Inertia>> }

\* The operators declared between the types of one unit set.
UnitSetImpls ==
    {i \in Impls \cup Radian_impls :
        \E S \in UnitSets : \E r \in Relationships(S) : <<i.tr, i.self, i.rhs>> = <<r[1], r[2], r[3]>>}

NextUnitSet ==
    \/ \E i \in UnitSetImpls : First(i)
    \/ \E j \in UnitSetImpls : \E ar \in {"rb", "br"} : Then(j, ar)

SpecUnitSet == Init /\ [][NextUnitSet]_vars

\* C7: for MetricMM and Rotary, every required relationship between the
\* eight associated types is declared with the required result type, and an
\* operator applied to values of a set's types as one of its relationships
\* gives a value of a type of that set.
C7_UnitSetsClosed ==
    /\ \A S \in UnitSets : \A r \in Relationships(S) :
          \E i \in UnitSetImpls : <<i.tr, i.self, i.rhs, i.out>> = r
    /\ \A S \in UnitSets :
          (Applied /\ \E r \in Relationships(S) : <<op1.tr, op1.self, op1.rhs>> = <<r[1], r[2], r[3]>>)
            => /\ <<op1.tr, op1.self, op1.rhs, r1.ty>> \in Relationships(S)
               /\ r1.ty \in SetTypes(S)
               /\ (pc = "two" /\ \E r \in Relationships(S) :
                                    <<op2.tr, op2.self, op2.rhs>> = <<r[1], r[2], r[3]>>)
                    => r2.ty \in SetTypes(S)

C7_Witness ==
    /\ pc = "two" /\ op1.tr = "Div" /\ op1.self = "Newtons" /\ op1.rhs = "Kilogramms"
    /\ r1.ty = MetricMM.Acceleration /\ op2.tr = "Mul" /\ arr = "br"
    /\ r2.ty = MetricMM.Force /\ IsFinite(r2.v) /\ ~IsZero(r2.v)

\* ------------------------------------------------------------ SpeedFactor
\* impl TryFrom<f32> for SpeedFactor, impl From<SpeedFactor> for f32,
\* impl Mul<SpeedFactor> for SpeedFactor, impl Mul<f32> for SpeedFactor
TryFromF32 == Impl("TryFrom", "f32", "none", "Result", "try_from", One)
F32From == Impl("From", "SpeedFactor", "none", "f32", "from", One)
MulSpeedFactor == Impl("Mul", "SpeedFactor", "SpeedFactor", "SpeedFactor", "mul", One)
MulF32 == Impl("Mul", "SpeedFactor", "f32", "SpeedFactor", "try_from", One)

\* SpeedFactor::try_from(va): Ok(SpeedFactor(va)) or Err(va)
TryFrom ==
    /\ pc = "input"
    /\ op1' = TryFromF32
    /\ r1' = Val(IF try_from(va).ok THEN "SpeedFactor" ELSE "Err", try_from(va).v)
    /\ pc' = "one"
    /\ UNCHANGED <<va, vb, op2, arr, r2>>

\* f32::from(factor) of the factor just constructed
IntoF32 ==
    /\ pc = "one" /\ r1.ty = "SpeedFactor"
    /\ op2' = F32From
    /\ arr' = "r"
    /\ r2' = Val("f32", r1.v)
    /\ pc' = "two"
    /\ UNCHANGED <<va, vb, op1, r1>>

\* factor * f32: the product goes through try_from, and expect() panics on Err
MulByF32 ==
    /\ pc = "input" /\ Constructible("SpeedFactor", va)
    /\ op1' = MulF32
    /\ r1' = Val(IF try_from(f32_mul(va, vb)).ok THEN "SpeedFactor" ELSE "panic",
                 f32_mul(va, vb))
    /\ pc' = "one"
    /\ UNCHANGED <<va, vb, op2, arr, r2>>

NextFactor ==
    \/ TryFrom
    \/ IntoF32
    \/ First(MulSpeedFactor)
    \/ MulByF32

SpecFactor == Init /\ [][NextFactor]_vars

\* va lies in the closed interval [0, 1]
InUnitInterval(v) == f32_le(Zero(0), v) /\ f32_le(v, One)

\* C9 as stated: try_from succeeds for every v in [0, 1], endpoints included,
\* and the factor converts back to exactly v; for every other v (and NaN) it
\* returns the rejected value as the error.
C9_ClosedInterval ==
    /\ (Applied /\ op1 = TryFromF32) =>
          IF InUnitInterval(va) THEN r1 = Val("SpeedFactor", va) ELSE r1 = Val("Err", va)
    /\ (pc = "two" /\ op1 = TryFromF32 /\ op2 = F32From) => r2 = Val("f32", va)

\* C10 as stated: a product of two factors is a factor only if the
\* validating constructor accepts it.
C10_ProductValidated ==
    (Applied /\ op1 = MulSpeedFactor /\ r1.ty = "SpeedFactor") => try_from(r1.v).ok

\* ---------------------------------------------- SpeedFactor, sequences
\* SpeedFactor::MAX, SpeedFactor::HALF, SpeedFactor::default()
SpeedFactor_MAX == One
SpeedFactor_HALF == Lit(1, 2)
SpeedFactor_default == One

\* impl Mul<SpeedFactor> for f32, impl Div<f32> for SpeedFactor,
\* impl Div<SpeedFactor> for f32: each computes the product of the two raw
\* values and passes it to try_from(..).expect(..)
F32Mul == Impl("Mul", "f32", "SpeedFactor", "SpeedFactor", "try_from", One)
DivF32 == Impl("Div", "SpeedFactor", "f32", "SpeedFactor", "try_from", One)
F32Div == Impl("Div", "f32", "SpeedFactor", "SpeedFactor", "try_from", One)

\* The safe operators that take a factor and yield a factor.
FactorImpls == {MulSpeedFactor, MulF32, F32Mul, DivF32, F32Div}

\* try_from(product).expect(..): the factor, or a panic
Expect(res) == Val(IF res.ok THEN "SpeedFactor" ELSE "panic", res.v)

\* The result of operator i on the factor SpeedFactor(f) and the other
\* operand x (a factor's raw value or an f32).
FactorResult(i, f, x) ==
    IF i.body = "mul" THEN Val("SpeedFactor", f32_mul(f, x))
    ELSE IF i.self = "f32" THEN Expect(try_from(f32_mul(x, f)))
    ELSE Expect(try_from(f32_mul(f, x)))

\* One of the constants as the first factor of a sequence.
FactorConst(c) ==
    /\ pc = "input"
    /\ op1' = Impl("const", "SpeedFactor", "none", "SpeedFactor", "const", c)
    /\ r1' = Val("SpeedFactor", c)
    /\ pc' = "one"
    /\ UNCHANGED <<va, vb, op2, arr, r2>>

\* The next operator of a sequence, applied to the factor just obtained and
\* an operand x; va and vb keep the operands of the latest operator.
FactorOp(i, x) ==
    /\ pc = "one" /\ r1.ty = "SpeedFactor"
    /\ (i.self = "SpeedFactor" /\ i.rhs = "SpeedFactor") => Constructible("SpeedFactor", x)
    /\ va' = r1.v /\ vb' = x
    /\ op1' = i
    /\ r1' = FactorResult(i, r1.v, x)
    /\ UNCHANGED <<pc, op2, arr, r2>>

NextFactorSeq ==
    \/ TryFrom
    \/ \E c \in {SpeedFactor_MAX, SpeedFactor_HALF, SpeedFactor_default} : FactorConst(c)
    \/ \E i \in FactorImpls : \E x \in Inputs : FactorOp(i, x)

SpecFactorSeq == Init /\ [][NextFactorSeq]_vars

\* C11 as stated: every factor reached by a sequence of the safe operators,
\* starting from a constant or a successful try_from, is one the validating
\* constructor accepts; a result outside the range is a panic, never a factor.
C11_FactorsStayInRange ==
    /\ r1.ty = "SpeedFactor" => try_from(r1.v).ok
    /\ (op1 \in FactorImpls /\ ~try_from(f32_mul(va, vb)).ok) => r1.ty = "panic"

\* ------------------------------------------------- fixed-ratio conversions
\* impl_conversion! with a conversion that divides where it should multiply.
impl_conversion_conv_Divides(input, output, conv) ==
    { Impl("From", input, "none", output, "div", conv),
      Impl("From", output, "none", input, "mul", conv) }

\* impl_conversion!(input, output): From in both directions, Self(value.0)
impl_conversion(input, output) ==
    { Impl("From", input, "none", output, "id", One),
      Impl("From", output, "none", input, "id", One) }

\* impl_conversion!(input, output, conv): From<input> for output is
\* Self(value.0 * conv), From<output> for input is Self(value.0 / conv)
impl_conversion_conv(input, output, conv) ==
    { Impl("From", input, "none", output, "mul", conv),
      Impl("From", output, "none", input, "div", conv) }

\* The literal 1000.0 and the literal 25.4, rounded to the format.
Lit_1000 == Lit(1000, 1)
Lit_25_4 == Lit(127, 5)

\* The conversions of metric.rs: position_unit! expands to the two-argument
\* impl_conversion!, and Meters / Millimeters are declared with 1000.0.
Conversions_metric ==
    impl_conversion("PositionMM", "Millimeters")
        \cup impl_conversion("PositionM", "Meters")
        \cup impl_conversion_conv("Meters", "Millimeters", Lit_1000)

\* The conversions of Inch: conversion_unit! is declared nowhere in the
\* sources, so these follow the documented behaviour (output = input * 25.4).
Conversions_imperial ==
    impl_conversion_conv("Inch", "RelDist", Lit_25_4)
        \cup impl_conversion_conv("Inch", "Millimeter", Lit_25_4)

Conversions == Conversions_metric \cup Conversions_imperial

\* The body of a From implementation c applied to the raw value x.
FromR(c, x) ==
    CASE c.body = "id" -> Rounded(x, FALSE)
      [] c.body = "mul" -> MulR(x, c.conv)
      [] c.body = "div" -> DivR(x, c.conv)

\* B::from(A(va))
Convert(c) ==
    /\ pc = "input"
    /\ op1' = c
    /\ r1' = Val(c.out, FromR(c, va).v)
    /\ pc' = "one"
    /\ UNCHANGED <<va, vb, op2, arr, r2>>

\* C::from(r1), for any conversion declared from the type of r1
ConvertAgain(c) ==
    /\ pc = "one"
    /\ c.self = r1.ty
    /\ op2' = c
    /\ r2' = Val(c.out, FromR(c, r1.v).v)
    /\ pc' = "two"
    /\ UNCHANGED <<va, vb, op1, r1, arr>>

NextConversion ==
    \/ \E c \in Conversions : Convert(c)
    \/ \E c \in Conversions : ConvertAgain(c)

SpecConversion == Init /\ [][NextConversion]_vars

\* The second conversion is the one declared together with the first, in the
\* other direction.
ThereAndBack ==
    /\ pc = "two"
    /\ op2.self = op1.out /\ op2.out = op1.self /\ op2.conv = op1.conv

\* The constant k the pair (A, B) is declared with; One for the identity form.
DeclaredRatio(A, B) ==
    CASE A = "Meters" /\ B = "Millimeters" -> Lit_1000
      [] A = "Inch" /\ B \in {"Millimeter", "RelDist"} -> Lit_25_4
      [] A \in PositionTypes /\ B = Distance(A) -> One

DeclaredPairs ==
    {<<"Meters", "Millimeters">>, <<"Inch", "Millimeter">>, <<"Inch", "RelDist">>,
     <<"PositionMM", "Millimeters">>, <<"PositionM", "Meters">>}

\* C12 as stated: A -> B -> A recovers the original value for every finite
\* input, for every declared conversion pair and in both directions.
C12_RoundTripAllFinite ==
    (ThereAndBack /\ IsFinite(va)) => r2 = Val(op1.self, va)

\* C12: for every declared pair (A, B, k), A -> B yields B(value * k) and
\* B -> A yields A(value / k), with k = 25.4 for Inch, k = 1000 for Meters ->
\* Millimeters and the two-argument form the identity on the raw value in both
\* directions; A -> B -> A (and B -> A -> B) recovers a finite input whenever
\* neither conversion had to round, and one inch is 25.4 mm and back one inch.
C12_RoundTripWhenExact ==
    /\ pc # "input" =>
        /\ op1 \in Conversions
        /\ \A d \in DeclaredPairs :
            /\ (op1.self = d[1] /\ op1.out = d[2]) =>
                  r1 = Val(d[2], IF DeclaredRatio(d[1], d[2]) = One THEN va
                                 ELSE f32_mul(va, DeclaredRatio(d[1], d[2])))
            /\ (op1.self = d[2] /\ op1.out = d[1]) =>
                  r1 = Val(d[1], IF DeclaredRatio(d[1], d[2]) = One THEN va
                                 ELSE f32_div(va, DeclaredRatio(d[1], d[2])))
    /\ (ThereAndBack /\ op1.body = "id") => r2 = Val(op1.self, va)
    /\ (ThereAndBack /\ IsFinite(va)
            /\ ~FromR(op1, va).ix /\ ~FromR(op2, r1.v).ix) =>
          r2 = Val(op1.self, va)
    /\ (ThereAndBack /\ op1.self = "Inch" /\ va = One) =>
          r1.v = Lit_25_4 /\ r2 = Val("Inch", One)

\* One inch converted to millimetres and back.
C12_Witness ==
    /\ ThereAndBack
    /\ op1.self = "Inch" /\ op1.out = "Millimeter" /\ va = One
    /\ r1 = Val("Millimeter", Lit_25_4) /\ r2 = Val("Inch", One)

\* ------------------------------------------------- angles and arc lengths
LinearTypes == {"Millimeters", "Meters"}

\* The * and / operators declared among Radians and the linear distances.
AngleImpls ==
    {i \in Impls :
        /\ i.tr \in {"Mul", "Div"}
        /\ {i.self, i.rhs} \subseteq LinearTypes \cup {"Radians"}}

NextAngle ==
    \/ \E i \in AngleImpls : First(i)
    \/ \E j \in AngleImpls : \E ar \in {"rb", "ra"} : Then(j, ar)

SpecAngle == Init /\ [][NextAngle]_vars

\* The first operator is angle * radius or radius * angle, the second divides
\* the arc length by that radius.
ArcOverRadius ==
    /\ pc = "two"
    /\ op1.tr = "Mul" /\ "Radians" \in {op1.self, op1.rhs}
    /\ op1.out \in LinearTypes
    /\ op2.tr = "Div" /\ Left(arr) = r1
    /\ Right(arr).ty \in LinearTypes

\* C13 as stated: angle * radius and radius * angle are arc lengths, and
\* dividing the arc length by the radius is declared and yields a Radians
\* value, the angle again when the radius is not zero.
C13_ArcOverRadiusIsAngle ==
    /\ (pc # "input" /\ op1.tr = "Mul" /\ "Radians" \in {op1.self, op1.rhs}) =>
          r1.ty \in LinearTypes /\ op1.out \in {op1.self, op1.rhs}
    /\ ArcOverRadius => r2.ty = "Radians"

\* ---------------------------------------------------------- inertia units
\* inertia_unit! with an extend that multiplies where it should divide.
inertia_unit_conv_ExtendMultiplies(name, length, reduced, conv) ==
    { Impl("reduce", name, length, reduced, "reduce", conv),
      Impl("extend", reduced, length, name, "reduce", conv) }

\* inertia_unit!(name, length, reduced, conv): InertiaUnit<length> for name
\* with reduce(self, ratio) -> reduced and extend(reduced, ratio) -> name
inertia_unit_conv(name, length, reduced, conv) ==
    { Impl("reduce", name, length, reduced, "reduce", conv),
      Impl("extend", reduced, length, name, "extend", conv) }

\* The literals 0.000_001 and 1_000_000.0, rounded to the format.
Lit_0_000_001 == Lit(1, 1000000)
Lit_1_000_000 == Lit(1000000, 1)

\* The inertia units of metric.rs whose reduce and extend the macro defines.
InertiaImpls ==
    inertia_unit_conv("Kilogramms", "Millimeters", "KgMeter2", Lit_0_000_001)
        \cup inertia_unit_conv("KgMeter2", "Millimeters", "Kilogramms", Lit_1_000_000)

\* self * ratio * ratio * conv, evaluated from the left
reduce(self, ratio, conv) ==
    LET p == MulR(self, ratio)
        q == MulR(p.v, ratio)
        t == MulR(q.v, conv)
    IN  Rounded(t.v, p.ix \/ q.ix \/ t.ix)

\* reduced / ratio / ratio / conv, evaluated from the left
extend(reduced, ratio, conv) ==
    LET p == DivR(reduced, ratio)
        q == DivR(p.v, ratio)
        t == DivR(q.v, conv)
    IN  Rounded(t.v, p.ix \/ q.ix \/ t.ix)

InertiaR(u, x, ratio) ==
    IF u.body = "reduce" THEN reduce(x, ratio, u.conv) ELSE extend(x, ratio, u.conv)

\* name(va).reduce(length(vb)) or name::extend(reduced(va), length(vb))
InertiaFirst(u) ==
    /\ pc = "input"
    /\ op1' = u
    /\ r1' = Val(u.out, InertiaR(u, va, vb).v)
    /\ pc' = "one"
    /\ UNCHANGED <<va, vb, op2, arr, r2>>

\* reduce or extend of the first result, with the same ratio
InertiaThen(u) ==
    /\ pc = "one"
    /\ u.self = r1.ty
    /\ op2' = u
    /\ r2' = Val(u.out, InertiaR(u, r1.v, vb).v)
    /\ pc' = "two"
    /\ UNCHANGED <<va, vb, op1, r1, arr>>

NextInertia ==
    \/ \E u \in InertiaImpls : InertiaFirst(u)
    \/ \E u \in InertiaImpls : InertiaThen(u)

SpecInertia == Init /\ [][NextInertia]_vars

\* The second step is the other function of the same inertia unit, and the
\* ratio is a nonzero number.
ReduceExtend ==
    /\ pc = "two"
    /\ op2.tr # op1.tr /\ op2.self = op1.out /\ op2.out = op1.self
    /\ op2.conv = op1.conv
    /\ IsFinite(vb) /\ ~IsZero(vb)

\* C14 as stated: reduce(i, r) is i * r^2, extend(x, r) is x / r^2, and the
\* two are inverses for every finite value and every nonzero ratio.
C14_InverseAllFinite ==
    /\ (pc # "input" /\ IsFinite(va) /\ IsFinite(vb) /\ ~IsZero(vb)) =>
          r1.v = (IF op1.tr = "reduce" THEN f32_mul(va, f32_mul(vb, vb))
                  ELSE f32_div(va, f32_mul(vb, vb)))
    /\ (ReduceExtend /\ IsFinite(va)) => r2 = Val(op1.self, va)

\* C14: for Kilogramms/Millimeters/KgMeter2 (conv 0.000001) and
\* KgMeter2/Millimeters/Kilogramms (conv 1000000), reduce(i, r) is
\* ((i * r) * r) * conv in the reduced unit and extend(x, r) is
\* ((x / r) / r) / conv in the inertia unit; extend(reduce(i, r), r) == i and
\* reduce(extend(x, r), r) == x for a finite value and a nonzero ratio whenever
\* none of the six operations had to round.
C14_InverseWhenExact ==
    /\ pc # "input" =>
        /\ op1 \in InertiaImpls
        /\ {op1.self, op1.out} = {"Kilogramms", "KgMeter2"}
        /\ op1.conv = (IF (op1.tr = "reduce") = (op1.self = "Kilogramms")
                       THEN Lit_0_000_001 ELSE Lit_1_000_000)
        /\ r1.ty = op1.out
        /\ r1.v = (IF op1.tr = "reduce"
                   THEN f32_mul(f32_mul(f32_mul(va, vb), vb), op1.conv)
                   ELSE f32_div(f32_div(f32_div(va, vb), vb), op1.conv))
    /\ (ReduceExtend /\ IsFinite(va)
            /\ ~InertiaR(op1, va, vb).ix /\ ~InertiaR(op2, r1.v, vb).ix) =>
          r2 = Val(op1.self, va)

\* An inertia reduced with a ratio other than 1 to a different raw value and
\* extended back exactly.
C14_Witness ==
    /\ ReduceExtend /\ IsFinite(va) /\ ~IsZero(va)
    /\ op1.tr = "reduce" /\ op1.self = "Kilogramms"
    /\ vb = Lit(1, 2) /\ r1.v # va
    /\ ~InertiaR(op1, va, vb).ix /\ ~InertiaR(op2, r1.v, vb).ix
    /\ r2 = Val("Kilogramms", va)

\* --------------------------------------------------------------- division
\* Every declared / operator of the units.
DivImpls == {i \in Impls : i.tr = "Div"}

NextDivision == \E i \in DivImpls : First(i)

SpecDivision == Init /\ [][NextDivision]_vars

\* C15: every division operator of the units returns a value of its declared
\* output type for every pair of operands; with a zero divisor the value is NaN
\* when the dividend is zero or NaN, and otherwise the infinity whose sign is
\* the dividend's for the divisor +0 and the opposite one for -0.
C15_DivisionTotal ==
    pc = "one" =>
        /\ op1 \in DivImpls
        /\ r1.ty = op1.out /\ IsF32(r1.v)
        /\ IsZero(vb) =>
              r1.v = (IF IsNaN(va) \/ IsZero(va) THEN NaN
                      ELSE Inf((va.s + vb.s) % 2))

\* A negative force divided by a zero inertia.
C15_Witness ==
    /\ pc = "one"
    /\ op1.self = "Force" /\ op1.rhs = "Inertia"
    /\ va = f32_neg(One) /\ vb = Zero(0)
    /\ r1 = Val("Acceleration", Inf(1))

\* -------------------------------------------------------------- Direction
\* enum Direction { CCW, CW }
CCW == "CCW"
CW == "CW"

\* #[default] CW
Direction_default == CW

\* Direction::from_bool(b)
from_bool(b) == IF b THEN CW ELSE CCW

\* Direction::as_bool(self)
as_bool(self) == CASE self = CCW -> FALSE [] self = CW -> TRUE

\* from_u8 with the two directions exchanged.
from_u8_ZeroIsCW(u) == IF u = 0 THEN CW ELSE CCW

\* Direction::from_u8(u)
from_u8(u) == IF u = 0 THEN CCW ELSE CW

\* Direction::as_u8(self)
as_u8(self) == CASE self = CCW -> 0 [] self = CW -> 1

\* The arguments: every u8 in va, every bool in vb.
InitDirection ==
    /\ va \in 0..255 /\ vb \in BOOLEAN
    /\ pc = "input"
    /\ op1 = "none" /\ r1 = "none"
    /\ op2 = "none" /\ arr = "none" /\ r2 = "none"

\* Direction::from_bool(vb) / Direction::from(vb), Direction::from_u8(va) /
\* Direction::from(va), Direction::default()
DirectionNew(f) ==
    /\ pc = "input"
    /\ op1' = f
    /\ r1' = CASE f = "from_bool" -> from_bool(vb)
               [] f = "from_u8" -> from_u8(va)
               [] f = "default" -> Direction_default
    /\ pc' = "one"
    /\ UNCHANGED <<va, vb, op2, arr, r2>>

\* r1.as_bool() / r1.into() : bool, r1.as_u8() / r1.into() : u8
DirectionAs(g) ==
    /\ pc = "one"
    /\ op2' = g
    /\ r2' = (IF g = "as_bool" THEN as_bool(r1) ELSE as_u8(r1))
    /\ pc' = "two"
    /\ UNCHANGED <<va, vb, op1, r1, arr>>

NextDirection ==
    \/ \E f \in {"from_bool", "from_u8", "default"} : DirectionNew(f)
    \/ \E g \in {"as_bool", "as_u8"} : DirectionAs(g)

SpecDirection == InitDirection /\ [][NextDirection]_vars

\* C16: from_bool(b).as_bool() == b, from_bool(d.as_bool()) == d and
\* from_u8(d.as_u8()) == d, from_u8(u).as_u8() == u for u in {0, 1},
\* from_u8(0) is CCW and every other u8 is CW, d.as_u8() is 1 exactly when
\* d.as_bool(), and the default direction is CW.
C16_DirectionRoundTrips ==
    /\ pc # "input" =>
        /\ r1 \in {CCW, CW}
        /\ op1 = "from_u8" => r1 = (IF va = 0 THEN CCW ELSE CW)
        /\ op1 = "default" => r1 = CW
    /\ (pc = "two" /\ op2 = "as_bool") =>
        /\ r2 \in BOOLEAN
        /\ from_bool(r2) = r1
        /\ op1 = "from_bool" => r2 = vb
        /\ r2 = (as_u8(r1) = 1)
    /\ (pc = "two" /\ op2 = "as_u8") =>
        /\ r2 \in {0, 1}
        /\ from_u8(r2) = r1
        /\ (op1 = "from_u8" /\ va \in {0, 1}) => r2 = va
        /\ (r2 = 1) = as_bool(r1)

\* The u8 255 read as a direction and written back as 1.
C16_Witness ==
    /\ pc = "two" /\ op1 = "from_u8" /\ op2 = "as_u8"
    /\ va = 255 /\ r1 = CW /\ r2 = 1

\* ------------------------------------------------- SpeedFactor, from_str
\* The longest string parsed.
MaxLen == 3

\* The characters the strings are made of: digits, the point, a sign, the
\* exponent mark and the letters of "nan" and "inf".
Chars == {"0", "1", "5", ".", "-", "e", "n", "a", "i", "f"}

Strings == UNION {[1..n -> Chars] : n \in 0..MaxLen}

\* f32::from_str(s): an optional sign, then "inf", "infinity" or "nan" in any
\* case, or decimal digits with an optional point (at least one digit) and an
\* optional exponent (e or E, an optional sign, at least one digit); the whole
\* string is consumed and the decimal value is rounded to the nearest f32.
f32_from_str(s) ==
    LET DigitChars == <<"0", "1", "2", "3", "4", "5", "6", "7", "8", "9">>
        IsDigit(c) == \E k \in 1..10 : DigitChars[k] = c
        DigitVal(c) == (CHOOSE k \in 1..10 : DigitChars[k] = c) - 1
        AllDigits(t) == \A k \in 1..Len(t) : IsDigit(t[k])
        RECURSIVE DecVal(_)
        DecVal(t) ==
            IF t = <<>> THEN 0
            ELSE 10 * DecVal(SubSeq(t, 1, Len(t) - 1)) + DigitVal(t[Len(t)])
        RECURSIVE Pow10(_)
        Pow10(n) == IF n = 0 THEN 1 ELSE 10 * Pow10(n - 1)
        Find(t, cs) ==
            IF \E k \in 1..Len(t) : t[k] \in cs
            THEN CHOOSE k \in 1..Len(t) :
                    t[k] \in cs /\ \A j \in 1..(k - 1) : t[j] \notin cs
            ELSE 0
        Lower(t) ==
            [k \in 1..Len(t) |->
                CASE t[k] = "I" -> "i" [] t[k] = "N" -> "n" [] t[k] = "F" -> "f"
                  [] t[k] = "A" -> "a" [] t[k] = "T" -> "t" [] t[k] = "Y" -> "y"
                  [] OTHER -> t[k]]
        signed == Len(s) > 0 /\ s[1] \in {"+", "-"}
        sg == IF signed /\ s[1] = "-" THEN 1 ELSE 0
        rest == IF signed THEN Tail(s) ELSE s
        ePos == Find(rest, {"e", "E"})
        mant == IF ePos = 0 THEN rest ELSE SubSeq(rest, 1, ePos - 1)
        expo == IF ePos = 0 THEN <<>> ELSE SubSeq(rest, ePos + 1, Len(rest))
        eSigned == Len(expo) > 0 /\ expo[1] \in {"+", "-"}
        eDigits == IF eSigned THEN Tail(expo) ELSE expo
        dot == Find(mant, {"."})
        ipart == IF dot = 0 THEN mant ELSE SubSeq(mant, 1, dot - 1)
        fpart == IF dot = 0 THEN <<>> ELSE SubSeq(mant, dot + 1, Len(mant))
        number ==
            /\ AllDigits(ipart) /\ AllDigits(fpart)
            /\ Len(ipart) + Len(fpart) > 0
            /\ ePos # 0 => Len(eDigits) > 0 /\ AllDigits(eDigits)
        num == DecVal(ipart \o fpart)
        ex == (IF eSigned /\ expo[1] = "-" THEN -1 ELSE 1) * DecVal(eDigits)
                  - Len(fpart)
    IN  IF number
        THEN Ok(IF num = 0 THEN Zero(sg)
                ELSE IF ex > 8 THEN Inf(sg)
                ELSE IF ex >= 0 THEN Round(sg, num * Pow10(ex), 1, 0).v
                ELSE Round(sg, num, Pow10(-ex), 0).v)
        ELSE IF Lower(rest) \in {<<"i", "n", "f">>,
                                 <<"i", "n", "f", "i", "n", "i", "t", "y">>}
        THEN Ok(Inf(sg))
        ELSE IF Lower(rest) = <<"n", "a", "n">> THEN Ok(NaN)
        ELSE Err("ParseFloatError")

\* from_str that reports a number out of range as a bad string.
from_str_RangeIsBadString(s) ==
    LET parsed == f32_from_str(s)
    IN  IF parsed.ok /\ try_from(parsed.v).ok
        THEN [kind |-> "Ok", v |-> parsed.v]
        ELSE [kind |-> "BadString", v |-> "ParseFloatError"]

\* <SpeedFactor as FromStr>::from_str(s)
from_str(s) ==
    LET parsed == f32_from_str(s)
    IN  IF ~parsed.ok THEN [kind |-> "BadString", v |-> parsed.v]
        ELSE IF try_from(parsed.v).ok
        THEN [kind |-> "Ok", v |-> try_from(parsed.v).v]
        ELSE [kind |-> "BadValue", v |-> try_from(parsed.v).v]

\* The string to parse, in va.
InitFromStr ==
    /\ va \in Strings /\ vb = "none"
    /\ pc = "input"
    /\ op1 = "none" /\ r1 = "none"
    /\ op2 = "none" /\ arr = "none" /\ r2 = "none"

\* SpeedFactor::from_str(va)
FromStr ==
    /\ pc = "input"
    /\ op1' = "from_str"
    /\ r1' = from_str(va)
    /\ pc' = "one"
    /\ UNCHANGED <<va, vb, op2, arr, r2>>

NextFromStr == FromStr

SpecFromStr == InitFromStr /\ [][NextFromStr]_vars

\* C17: parsing a string yields exactly one of BadString, BadValue(v) and
\* Ok(factor): BadString exactly when the text is not a float literal,
\* BadValue carrying the parsed number exactly when that number is not in
\* (0, 1], and Ok with the parsed number exactly when it is.
C17_ParseOutcomes ==
    pc = "one" =>
        /\ r1.kind \in {"BadString", "BadValue", "Ok"}
        /\ (r1.kind = "BadString") = ~f32_from_str(va).ok
        /\ f32_from_str(va).ok =>
            /\ r1.v = f32_from_str(va).v
            /\ (r1.kind = "Ok") =
                  (f32_gt(r1.v, Zero(0)) /\ f32_le(r1.v, One))

\* "-.5" is a number out of range, ".5" a factor, "-" and "" are no numbers.
C17_Witness ==
    /\ pc = "one"
    /\ va = <<"-", ".", "5">>
    /\ r1 = [kind |-> "BadValue", v |-> f32_neg(Lit(1, 2))]
    /\ from_str(<<".", "5">>) = [kind |-> "Ok", v |-> Lit(1, 2)]
    /\ from_str(<<"-">>).kind = "BadString"
    /\ from_str(<<>>).kind = "BadString"
    /\ from_str(<<"n", "a", "n">>) = [kind |-> "BadValue", v |-> NaN]
    /\ from_str(<<"1", "e", "1">>).kind = "BadValue"
    /\ from_str(<<"1", ".">>) = [kind |-> "Ok", v |-> One]

\* ------------------------------------------------------------ unit arrays
\* The largest array length C.
MaxC == 2

\* The raw values of the array elements.
Elements == {Zero(0), Zero(1), One, MinSub(0), NaN}

Arrays == UNION {[1..n -> Elements] : n \in 0..MaxC}

\* base[i] != rhs[i] that never sees a difference.
ne_Never(x, y) == FALSE

\* base[i] != rhs[i], the derived PartialEq of a unit
ne(x, y) == ~f32_eq(x, y)

\* The loop body of sub_unit_arrays that adds.
slot_SubAdds(f, x, y) == f32_add(x, y)

\* base[i] + rhs[i] of add_unit_arrays, base[i] - rhs[i] of sub_unit_arrays
slot(f, x, y) == IF f = "add_unit_arrays" THEN f32_add(x, y) ELSE f32_sub(x, y)

\* core::mem::zeroed() of [U::Output; C]: every slot the all-zero value
zeroed(n) == [k \in 1..n |-> [v |-> Zero(0), written |-> FALSE]]

\* The raw values of a result array.
Raw(res) == [k \in 1..Len(res) |-> res[k].v]

\* Two arrays of the same length C.
InitArrays ==
    /\ va \in Arrays /\ vb \in [1..Len(va) -> Elements]
    /\ pc = "input"
    /\ op1 = "none" /\ r1 = "none"
    /\ op2 = "none" /\ arr = "none" /\ r2 = "none"

\* The function running: the second call if there is one.
Running == IF op2 # "none" THEN op2 ELSE op1

LoopStart == [i |-> 0, steps |-> 0, read |-> {}]

\* f(va, vb): the arguments are copied in, the loop starts at i = 0
Call(f) ==
    /\ pc = "input"
    /\ op1' = f
    /\ arr' = <<va, vb>>
    /\ r1' = LoopStart
    /\ r2' = (IF f = "compare_unit_arrays" THEN "none" ELSE zeroed(Len(va)))
    /\ pc' = "loop"
    /\ UNCHANGED <<va, vb, op2>>

\* One iteration of the loop of compare_unit_arrays: return false at a
\* mismatch, else go on with i + 1.
CompareStep ==
    /\ pc = "loop" /\ Running = "compare_unit_arrays"
    /\ r1.i < Len(va)
    /\ IF ne(va[r1.i + 1], vb[r1.i + 1])
       THEN /\ r2' = FALSE
            /\ pc' = "done"
            /\ r1' = [r1 EXCEPT !.steps = @ + 1, !.read = @ \cup {r1.i}]
       ELSE /\ r1' = [i |-> r1.i + 1, steps |-> r1.steps + 1,
                      read |-> r1.read \cup {r1.i}]
            /\ UNCHANGED <<r2, pc>>
    /\ UNCHANGED <<va, vb, op1, op2, arr>>

\* The loop of compare_unit_arrays ran through: return true.
CompareEnd ==
    /\ pc = "loop" /\ Running = "compare_unit_arrays"
    /\ r1.i = Len(va)
    /\ r2' = TRUE
    /\ pc' = "done"
    /\ UNCHANGED <<va, vb, op1, op2, arr, r1>>

\* One iteration of the loop of add_unit_arrays / sub_unit_arrays.
ArithStep ==
    /\ pc = "loop" /\ Running # "compare_unit_arrays"
    /\ r1.i < Len(va)
    /\ r2' = [r2 EXCEPT ![r1.i + 1] =
                [v |-> slot(Running, va[r1.i + 1], vb[r1.i + 1]), written |-> TRUE]]
    /\ r1' = [i |-> r1.i + 1, steps |-> r1.steps + 1, read |-> r1.read \cup {r1.i}]
    /\ UNCHANGED <<va, vb, pc, op1, op2, arr>>

\* The loop of add_unit_arrays / sub_unit_arrays ran through: return result.
ArithEnd ==
    /\ pc = "loop" /\ Running # "compare_unit_arrays"
    /\ r1.i = Len(va)
    /\ pc' = "done"
    /\ UNCHANGED <<va, vb, op1, op2, arr, r1, r2>>

\* g(result, vb): a second call on the result of the first, same right array
CallOnResult(g) ==
    /\ pc = "done" /\ op1 # "compare_unit_arrays" /\ op2 = "none"
    /\ op2' = g
    /\ va' = Raw(r2)
    /\ r1' = LoopStart
    /\ r2' = zeroed(Len(va))
    /\ pc' = "loop"
    /\ UNCHANGED <<vb, op1, arr>>

NextArrays ==
    \/ \E f \in {"add_unit_arrays", "sub_unit_arrays", "compare_unit_arrays"} : Call(f)
    \/ CompareStep
    \/ CompareEnd
    \/ ArithStep
    \/ ArithEnd
    \/ \E g \in {"add_unit_arrays", "sub_unit_arrays"} : CallOnResult(g)

SpecArrays == InitArrays /\ [][NextArrays]_vars

\* The indices at which the two arrays differ, counted from 0.
Mismatches == {k \in 0..(Len(va) - 1) : ~f32_eq(va[k + 1], vb[k + 1])}

\* C18: compare_unit_arrays returns true exactly when base[i] == rhs[i] at
\* every index; it examines the indices in increasing order up to and
\* including the first mismatch and none after it, returns true for C = 0,
\* and both arrays are what they were at the call.
C18_CompareIndexWise ==
    (pc # "input" /\ op1 = "compare_unit_arrays") =>
        /\ arr = <<va, vb>>
        /\ r1.read = 0..(r1.steps - 1)
        /\ \A k \in r1.read : \A m \in Mismatches : k <= m
        /\ pc = "done" =>
            /\ r2 = (Mismatches = {})
            /\ Len(va) = 0 => r2 = TRUE /\ r1.read = {}
            /\ r2 = TRUE => r1.read = 0..(Len(va) - 1)
            /\ r2 = FALSE =>
                  \E m \in Mismatches :
                      /\ \A q \in Mismatches : m <= q
                      /\ r1.read = 0..m

\* Two arrays that differ at index 0 and at index 1: only index 0 is examined.
C18_Witness ==
    /\ pc = "done" /\ op1 = "compare_unit_arrays"
    /\ Len(va) = MaxC /\ Mismatches = 0..(MaxC - 1)
    /\ r2 = FALSE /\ r1.read = {0}

\* The raw values the first call was made with.
FirstBase == arr[1]

\* add_unit_arrays followed by sub_unit_arrays with the same right array has
\* returned.
AddThenSub ==
    /\ pc = "done"
    /\ op1 = "add_unit_arrays" /\ op2 = "sub_unit_arrays"

\* C19 as stated: every slot is written with base[i] + rhs[i] (base[i] -
\* rhs[i]) after exactly C steps, and sub_unit_arrays(add_unit_arrays(p, d), d)
\* equals p at every index, for all finite elements.
C19_SubUndoesAddAllFinite ==
    AddThenSub =>
        \A k \in 1..Len(vb) :
            (IsFinite(FirstBase[k]) /\ IsFinite(vb[k])) => f32_eq(r2[k].v, FirstBase[k])

\* C19: add_unit_arrays and sub_unit_arrays return after exactly C loop steps
\* an array of length C whose every slot i has been written with base[i] +
\* rhs[i] (base[i] - rhs[i]); sub_unit_arrays(add_unit_arrays(p, d), d)
\* equals p at every index where p[i] and d[i] are finite and p[i] + d[i] did
\* not round.
C19_SubUndoesAddWhenExact ==
    /\ (pc = "done" /\ op1 # "compare_unit_arrays") =>
        /\ r1.steps = Len(va) /\ Len(r2) = Len(va) /\ Len(vb) = Len(va)
        /\ \A k \in 1..Len(va) :
            /\ r2[k].written
            /\ r2[k].v = (IF Running = "add_unit_arrays" THEN f32_add(va[k], vb[k])
                          ELSE f32_sub(va[k], vb[k]))
    /\ AddThenSub =>
        \A k \in 1..Len(vb) :
            (IsFinite(FirstBase[k]) /\ IsFinite(vb[k])
                /\ ~AddR(FirstBase[k], vb[k]).ix) => f32_eq(r2[k].v, FirstBase[k])

\* Positions 1 and 0 moved by the distances 1 and the smallest subnormal, and
\* back.
C19_Witness ==
    /\ AddThenSub /\ Len(vb) = MaxC
    /\ FirstBase[1] = One /\ vb[1] = One
    /\ FirstBase[MaxC] = Zero(0) /\ vb[MaxC] = MinSub(0)
    /\ \A k \in 1..Len(vb) : r2[k].written
    /\ r2[1].v = One /\ va[1] # One

\* ---------------------------------------------------------- min and max
\* Self(self.0.max(other.0)): f32::max returns the other argument when one is
\* NaN and may return either argument when the two compare equal (0.0 and
\* -0.0); the set of the values it can return.
max(self, other) ==
    IF IsNaN(self) THEN {other}
    ELSE IF IsNaN(other) THEN {self}
    ELSE IF f32_eq(self, other) THEN {self, other}
    ELSE IF f32_lt(self, other) THEN {other} ELSE {self}

\* Self(self.0.min(other.0)), likewise
min(self, other) ==
    IF IsNaN(self) THEN {other}
    ELSE IF IsNaN(other) THEN {self}
    ELSE IF f32_eq(self, other) THEN {self, other}
    ELSE IF f32_lt(other, self) THEN {other} ELSE {self}

\* max_ref that returns the smaller argument.
max_ref_Smaller(self, other) == IF f32_lt(self, other) THEN "self" ELSE "other"

\* max_ref(&self, other): the reference returned
max_ref(self, other) == IF f32_lt(self, other) THEN "other" ELSE "self"

\* min_ref(&self, other): the reference returned
min_ref(self, other) == IF f32_gt(self, other) THEN "other" ELSE "self"

\* unit(va).min(unit(vb)) or unit(va).max(unit(vb))
ValueForm(f) ==
    /\ pc = "input"
    /\ op1' = f
    /\ r1' \in (IF f = "max" THEN max(va, vb) ELSE min(va, vb))
    /\ pc' = "one"
    /\ UNCHANGED <<va, vb, op2, arr, r2>>

\* unit(va).min_ref(&unit(vb)) or unit(va).max_ref(&unit(vb)), the form that
\* goes with the first call; arr is the reference returned, r2 its referent.
RefForm ==
    /\ pc = "one"
    /\ op2' = (IF op1 = "max" THEN "max_ref" ELSE "min_ref")
    /\ arr' = (IF op1 = "max" THEN max_ref(va, vb) ELSE min_ref(va, vb))
    /\ r2' = (IF arr' = "self" THEN va ELSE vb)
    /\ pc' = "two"
    /\ UNCHANGED <<va, vb, op1, r1>>

NextMinMax ==
    \/ \E f \in {"min", "max"} : ValueForm(f)
    \/ RefForm

SpecMinMax == Init /\ [][NextMinMax]_vars

f32_trig(f, v) ==
    LET RECURSIVE Term(_, _)
        Term(x, n) ==
            IF n = 0 THEN Pow2(14) ELSE (Term(x, n - 1) * x) \div (Pow2(14) * n)
        fix == v.m * Pow2(14 + v.e)
        SinFix ==
            Term(fix, 1) - Term(fix, 3) + Term(fix, 5) - Term(fix, 7)
                + Term(fix, 9) - Term(fix, 11) + Term(fix, 13)
        CosFix ==
            Term(fix, 0) - Term(fix, 2) + Term(fix, 4) - Term(fix, 6)
                + Term(fix, 8) - Term(fix, 10) + Term(fix, 12)
        neg == IF CosFix < 0 THEN 1 ELSE 0
        CosAbs == IF CosFix < 0 THEN -CosFix ELSE CosFix
    IN  IF IsNaN(v) \/ IsInf(v) THEN NaN
        ELSE IF v.e <= -8 - Prec THEN (IF f = "cos" THEN One ELSE v)
        ELSE CASE f = "sin" -> Round(v.s, SinFix, Pow2(14), 0).v
               [] f = "cos" -> Round(neg, CosAbs, Pow2(14), 0).v
               [] f = "tan" -> Round((v.s + neg) % 2, SinFix, CosAbs, 0).v

\* The values the methods are called with: NaN, the infinities and the finite
\* values below 2 in magnitude.
TrigInputs == {v \in Inputs : IsFinite(v) => v.e <= 1 - Prec}

\* sin(self): self.0.sin()
sin(self) == f32_trig("sin", self)

\* cos(self): self.0.tan()
cos(self) == f32_trig("tan", self)

\* tan(self): self.0.tan()
tan(self) == f32_trig("tan", self)

\* unit(va).sin(), unit(va).cos() or unit(va).tan()
Trig(f) ==
    /\ pc = "input"
    /\ va \in TrigInputs
    /\ op1' = f
    /\ r1' = Val("f32", CASE f = "sin" -> sin(va)
                          [] f = "cos" -> cos(va)
                          [] f = "tan" -> tan(va))
    /\ pc' = "one"
    /\ UNCHANGED <<va, vb, op2, arr, r2>>

NextTrig == \E f \in {"sin", "cos", "tan"} : Trig(f)

SpecTrig == Init /\ [][NextTrig]_vars

\* C21 as stated: cos returns the cosine of the wrapped value, and differs
\* from tan wherever cosine and tangent differ (at 0: cosine 1, tangent 0).
C21_CosIsCosine ==
    (pc = "one" /\ op1 = "cos") =>
        /\ r1.v = f32_trig("cos", va)
        /\ f32_trig("cos", va) # f32_trig("tan", va) => r1.v # tan(va)

\* ------------------------------------------------------ Time to Duration
\* The fraction of a second of a finite secs = m * 2^e in nanoseconds, as the
\* quotient <<numerator, denominator>> (10^9 = 2^9 * 1953125).
SubsecNanos(secs) ==
    LET k == -secs.e
        rem == secs.m % Pow2(k)
    IN  IF k <= 0 THEN <<0, 1>>
        ELSE IF k <= 9 THEN <<rem * Pow2(9 - k) * 1953125, 1>>
        ELSE <<rem * 1953125, Pow2(k - 9)>>

\* Duration::from_secs_f32(secs): panics when secs is negative, not finite or
\* does not fit the u64 seconds of a Duration; else the whole seconds and the
\* fraction in whole nanoseconds, truncated or rounded to nearest depending on
\* the version of the standard library. The set of the possible outcomes.
from_secs_f32(secs) ==
    IF ~IsFinite(secs) \/ (secs.s = 1 /\ secs.m # 0) \/ secs.e >= 65 - Prec
    THEN {Val("panic", secs)}
    ELSE {[ty |-> "Duration",
           secs |-> IF secs.e >= 0 THEN secs.m * Pow2(secs.e)
                    ELSE secs.m \div Pow2(-secs.e),
           nanos |-> n] :
            n \in {SubsecNanos(secs)[1] \div SubsecNanos(secs)[2],
                   RoundNearestEven(SubsecNanos(secs)[1], SubsecNanos(secs)[2])}}

\* <Time as Into<Duration>>::into(Time(va))
TimeInto ==
    /\ pc = "input"
    /\ op1' = "into"
    /\ r1' \in from_secs_f32(va)
    /\ pc' = "one"
    /\ UNCHANGED <<va, vb, op2, arr, r2>>

NextDuration == TimeInto

SpecDuration == Init /\ [][NextDuration]_vars

\* C22 as stated: for every finite Time value, negative ones included, the
\* conversion returns a Duration, of exactly that many seconds.
C22_DurationLosslessTotal ==
    (pc = "one" /\ op1 = "into" /\ IsFinite(va)) =>
        /\ r1.ty = "Duration"
        /\ r1.secs = (IF va.e >= 0 THEN va.m * Pow2(va.e) ELSE va.m \div Pow2(-va.e))
        /\ SubsecNanos(va)[1] % SubsecNanos(va)[2] = 0
        /\ r1.nanos = SubsecNanos(va)[1] \div SubsecNanos(va)[2]

\* ------------------------------------------------ SpeedFactor, division
\* C23 as stated: SpeedFactor / f32 is the factor of value self / rhs and
\* f32 / SpeedFactor the factor of value lhs / rhs, each validated by try_from
\* and a panic when the quotient is out of range.
C23_DivisionIsQuotient ==
    /\ op1 = DivF32 => r1 = Expect(try_from(f32_div(va, vb)))
    /\ op1 = F32Div => r1 = Expect(try_from(f32_div(vb, va)))

\* ------------------------------------------- distance + position, lib.rs
\* C24 as stated: for Gamma and Phi and every Delta d, d + p is declared and
\* yields the position type and the value of p + d, never a distance.
C24_AddCommutes ==
    (pc # "input" /\ op1.tr = "Add" /\ op1.self = "Delta"
            /\ op1.rhs \in {"Gamma", "Phi"}) =>
        /\ r1.ty = op1.rhs
        /\ \E j \in Impls :
            /\ j.tr = "Add" /\ j.self = op1.rhs /\ j.rhs = "Delta"
            /\ r1 = Val(j.out, Body(j, vb, va))

============================================================================
